---- MODULE Spec2Model ----
(***************************************************************************)
(* State-machine model of src/run.py: SimpleMakerBot, the PI42 maker-order *)
(* averaging bot.  The bot is one sequential thread of control (run()),    *)
(* modelled by a program counter; the exchange (fills, positions, clock)   *)
(* is the environment and moves between the bot's steps.                   *)
(*                                                                         *)
(* Scaling: quantities are in thousandths, fill amounts in percent of the  *)
(* order amount, drop_percent in hundredths of a percent, min_liq_buffer   *)
(* and max_margin_usage in tenths, so every comparison of the source is    *)
(* an exact integer comparison.                                            *)
(*                                                                         *)
(* Assumptions: the id place_maker_order stores (orderId) is the id the    *)
(* open-order list shows (clientOrderId), and the exchange drops an order  *)
(* from the list exactly when it confirms the cancellation.  An order's    *)
(* age test (time() - placed_time > maker_order_timeout, as the code       *)
(* computes it) is the flag old of the order.                              *)
(***************************************************************************)
EXTENDS Integers, Sequences, FiniteSets, TLC

(***************************************************************************)
(* Configuration                                                           *)
(***************************************************************************)
\* SYMBOL_CONFIG, its first two instruments in configuration order
\* (qty in thousandths).
SYMBOL_CONFIG ==
    << [symbol |-> "ETHINR", qty |-> 20, leverage |-> 150],
       [symbol |-> "BTCINR", qty |-> 2,  leverage |-> 150] >>

Symbols == { SYMBOL_CONFIG[i].symbol : i \in 1..Len(SYMBOL_CONFIG) }

Cfg(symbol) ==
    CHOOSE c \in { SYMBOL_CONFIG[i] : i \in 1..Len(SYMBOL_CONFIG) } :
        c.symbol = symbol

\* self.drop_percent = 0.75, in hundredths of a percent
drop_percent == 75
\* self.max_buys
max_buys == 8
\* self.max_margin_usage = 0.6, in tenths
max_margin_usage == 6
\* self.min_liq_buffer = 0.2, in tenths of a percent
min_liq_buffer == 2
\* self.max_api_errors
max_api_errors == 5
\* max_retries of _initialize_balance_and_positions
max_retries == 3

(***************************************************************************)
(* Bounds of the model                                                     *)
(***************************************************************************)
\* open BUY LIMIT orders a previous run may have left on the exchange
MaxLeftover == 1
\* placements the exchange accepts in one run; further ones are rejected
MaxPlaced == 2
\* largest position, in multiples of the instrument's base quantity
MaxPos == 1

\* order identifiers: the leftovers first, then the ones this run places
LeftoverIds == 1..MaxLeftover

\* the values the exchange may report
FillLevels == {0, 75, 100}
Prices == {990, 1000}
Balances == {0, 100}
\* entry and liquidation price of an open position
EntryPrice == [avg |-> 1000, liq |-> 900]

VARIABLES
    \* ---- SimpleMakerBot fields
    pending_orders,     \* dict symbol -> tracked order
    orders_placed, orders_filled, orders_cancelled,
    api_error_count,
    available_balance,
    \* ---- position of the thread in __init__ / run() and its locals
    pc, attempt, cur, ltp, position, signal, healthy,
    \* ---- the exchange and the clock (environment)
    exOrders,           \* open orders: id -> [symbol, filled, old]
    exPos,              \* open position per symbol, in base quantities
    accepting,          \* the exchange accepts new orders in this run
    checkDue,           \* time() - last_order_check >= order_check_interval
    exchangeUp,         \* from now on every exchange call succeeds
    \* ---- history of the current cycle (observation only)
    posOutcome,         \* outcome of this instrument's get_position call
    lastSeen,           \* last successfully fetched position state per symbol
    lookup,             \* what get_signal's open-order lookup found
    done,               \* monitoring steps run since the top of the cycle
    issued,             \* cancellations issued by the last age-based clean-up
    \* ---- one exchange-client call seen from the inside
    now,                \* time.time(), in thirds of a second
    last_call_time,     \* RateLimiter.last_call_time of each limiter
    call                \* the call in progress: operation, stage, result

vars == << pending_orders, orders_placed, orders_filled, orders_cancelled,
           api_error_count, available_balance,
           pc, attempt, cur, ltp, position, signal, healthy,
           exOrders, exPos, accepting, checkDue, exchangeUp,
           posOutcome, lastSeen, lookup, done, issued,
           now, last_call_time, call >>

callVars == << now, last_call_time, call >>
runVars == << pending_orders, orders_placed, orders_filled, orders_cancelled,
              api_error_count, available_balance,
              pc, attempt, cur, ltp, position, signal, healthy,
              exOrders, exPos, accepting, checkDue, exchangeUp,
              posOutcome, lastSeen, lookup, done, issued >>

botVars == << pending_orders, orders_placed, orders_filled, orders_cancelled,
              api_error_count, available_balance >>
localVars == << ltp, position, signal >>
envVars == << exOrders, exPos, accepting, checkDue, exchangeUp >>
histVars == << posOutcome, lastSeen, lookup, done, issued >>

(***************************************************************************)
(* Helpers                                                                 *)
(***************************************************************************)
EmptyMap == [x \in {} |-> 0]

Remove(map, keys) == [k \in (DOMAIN map) \ keys |-> map[k]]

Put(map, key, val) ==
    [k \in (DOMAIN map) \cup {key} |-> IF k = key THEN val ELSE map[k]]

NoPosition == [qty |-> 0, avg |-> 0, liq |-> 0]

\* the status both reconcilers and the startup scan derive from the amounts
\* (order_amount is 100, so filled_amount is also the fill percentage)
OrderStatus(filled_amount) ==
    IF filled_amount = 0 THEN "NEW"
    ELSE IF filled_amount < 100 THEN "PARTIALLY_FILLED"
    ELSE "FILLED"

\* an exchange call can fail only while the exchange is not yet stable
Outcomes(all) == IF exchangeUp THEN {"ok"} ELSE all

\* The runs come in two kinds, fixed at the start.  In a run in which the
\* exchange accepts orders the account starts without open orders and no
\* request ends in an error the bot counts (HTTP 429, empty lists and raised
\* errors still occur).  In a run in which it accepts none (every placement
\* is rejected) orders of an earlier run may be open and requests may also
\* end in counted errors.
Counted(outcomes) == IF accepting THEN {} ELSE outcomes

Max(a, b) == IF a >= b THEN a ELSE b

(***************************************************************************)
(* Exchange client                                                         *)
(***************************************************************************)
\* fetch_open_orders(symbol): the ids the call returns.  A 404, any other
\* status and any exception all return the empty list.
fetch_open_orders(symbol, outcome) ==
    IF outcome = "ok"
    THEN { i \in DOMAIN exOrders : exOrders[i].symbol = symbol }
    ELSE {}

\* fetch_open_orders(): no symbol filter
fetch_all_open_orders(outcome) ==
    IF outcome = "ok" THEN DOMAIN exOrders ELSE {}

\* get_open_order_by_id: "found" with the filled amount, or "absent" (None)
get_open_order_by_id(symbol, order_id, outcome) ==
    IF order_id \in fetch_open_orders(symbol, outcome)
    THEN [found |-> TRUE, filled |-> exOrders[order_id].filled]
    ELSE [found |-> FALSE, filled |-> 0]

\* cancel_order: TRUE exactly on HTTP 200 with success = true
cancel_order(outcome) == outcome = "ok"

\* get_position: the value returned for each outcome of the request
get_position(symbol, outcome) ==
    IF outcome = "ok" /\ exPos[symbol] > 0
    THEN [qty |-> exPos[symbol] * Cfg(symbol).qty,
          avg |-> EntryPrice.avg, liq |-> EntryPrice.liq]
    ELSE NoPosition

\* get_position: api_error_count after the call ("429" is not counted)
PositionErrorCount(outcome) ==
    IF outcome = "error" THEN api_error_count + 1 ELSE api_error_count

(***************************************************************************)
(* Strategy                                                                *)
(***************************************************************************)
\* a lookup that keeps tracking an order the exchange no longer lists
SignalLookup_KeepsAbsent(symbol, outcome) ==
    IF symbol \notin DOMAIN pending_orders
    THEN [found |-> "untracked", pending |-> pending_orders,
          filled |-> orders_filled]
    ELSE LET order_data ==
                 get_open_order_by_id(symbol,
                                      pending_orders[symbol].order_id, outcome)
         IN  IF ~order_data.found
             THEN [found |-> "absent", pending |-> pending_orders,
                   filled |-> orders_filled]
             ELSE IF OrderStatus(order_data.filled) \in {"NEW", "PARTIALLY_FILLED"}
             THEN [found |-> "open", pending |-> pending_orders,
                   filled |-> orders_filled]
             ELSE [found |-> "filled",
                   pending |-> Remove(pending_orders, {symbol}),
                   filled |-> orders_filled + 1]

\* get_signal, lines 856-888: the open-order lookup for a tracked symbol.
\* Returns what was found, the tracking dict and the filled counter after it.
SignalLookup(symbol, outcome) ==
    IF symbol \notin DOMAIN pending_orders
    THEN [found |-> "untracked", pending |-> pending_orders,
          filled |-> orders_filled]
    ELSE LET order_data ==
                 get_open_order_by_id(symbol,
                                      pending_orders[symbol].order_id, outcome)
         IN  IF ~order_data.found
             THEN [found |-> "absent",
                   pending |-> Remove(pending_orders, {symbol}),
                   filled |-> orders_filled]
             ELSE IF OrderStatus(order_data.filled) \in {"NEW", "PARTIALLY_FILLED"}
             THEN [found |-> "open", pending |-> pending_orders,
                   filled |-> orders_filled]
             ELSE [found |-> "filled",
                   pending |-> Remove(pending_orders, {symbol}),
                   filled |-> orders_filled + 1]

\* a ladder that holds when there is no position
Ladder_NoEntry(price, pos, qty) == "hold"

\* a ladder without the position-size cap
Ladder_NoCap(price, pos, qty) ==
    IF pos = NoPosition THEN "buy"
    ELSE LET buy_count == pos.qty \div qty IN
         IF (price - pos.liq) * 1000 < min_liq_buffer * price THEN "hold"
         ELSE IF price * 10000 < pos.avg * (10000 - drop_percent * buy_count)
              THEN "buy"
         ELSE "hold"

\* a ladder without the liquidation buffer
Ladder_NoBuffer(price, pos, qty) ==
    IF pos = NoPosition THEN "buy"
    ELSE LET buy_count == pos.qty \div qty IN
         IF buy_count >= max_buys THEN "hold"
         ELSE IF price * 10000 < pos.avg * (10000 - drop_percent * buy_count)
              THEN "buy"
         ELSE "hold"

\* a ladder whose threshold is one step of drop_percent, whatever buy_count
Ladder_OneStep(price, pos, qty) ==
    IF pos = NoPosition THEN "buy"
    ELSE LET buy_count == pos.qty \div qty IN
         IF buy_count >= max_buys THEN "hold"
         ELSE IF (price - pos.liq) * 1000 < min_liq_buffer * price THEN "hold"
         ELSE IF price * 10000 < pos.avg * (10000 - drop_percent)
              THEN "buy"
         ELSE "hold"

\* get_signal, lines 890-912: the decision once no open order blocks it
Ladder(price, pos, qty) ==
    IF pos = NoPosition THEN "buy"
    ELSE LET buy_count == pos.qty \div qty IN
         IF buy_count >= max_buys THEN "hold"
         ELSE IF (price - pos.liq) * 1000 < min_liq_buffer * price THEN "hold"
         ELSE IF price * 10000 < pos.avg * (10000 - drop_percent * buy_count)
              THEN "buy"
         ELSE "hold"

\* a get_signal that decides on price and position alone
get_signal_NoPending(found, price, pos, qty) == Ladder(price, pos, qty)

\* get_signal: the value returned
get_signal(found, price, pos, qty) ==
    IF found = "open" THEN "pending" ELSE Ladder(price, pos, qty)

\* a risk check that lets every order through
check_risk_limits_Always(symbol, qty, price) == TRUE

\* check_risk_limits: margin_needed <= available_balance * max_margin_usage
check_risk_limits(symbol, qty, price) ==
    ~(qty * price * 10 >
        available_balance * max_margin_usage * 1000 * Cfg(symbol).leverage)

(***************************************************************************)
(* RateLimiter and the inside of one exchange-client call                  *)
(***************************************************************************)
\* the clock when the process starts, and the last instant modelled
StartTime == 10
MaxTime == 24

\* __init__, lines 184-185: the two limiter instances
Limiters == {"api_limiter", "order_limiter"}

\* RateLimiter.__init__: min_interval = 1.0 / calls_per_second, in thirds of
\* a second (calls_per_second is 1.0 for api_limiter, 0.3 for order_limiter)
min_interval(limiter) == IF limiter = "api_limiter" THEN 3 ELSE 10

\* the requests the client sends
Operations ==
    {"balance", "positions", "open_orders", "ltp", "health", "place", "cancel"}

\* a limiter shared by every request
LimiterOf_Shared(op) == "api_limiter"

\* the limiter whose wait() each method calls before its request: none of
\* them sends without one
LimiterOf(op) ==
    IF op \in {"place", "cancel"} THEN "order_limiter" ELSE "api_limiter"

\* a wait() that never sleeps
SleepTime_None(limiter, current_time) == 0

\* RateLimiter.wait, lines 131-136: the argument of time.sleep (0: no sleep)
SleepTime(limiter, current_time) ==
    LET elapsed == current_time - last_call_time[limiter] IN
    IF elapsed < min_interval(limiter)
    THEN min_interval(limiter) - elapsed
    ELSE 0

\* what the exchange or the transport can answer to one request ("ok" is the
\* status the method expects, "4xx" a client error other than 429 and 404)
RequestOutcomes == {"ok", "timeout", "429", "5xx", "4xx"}

\* the failures the retry policy calls transient
Transient == {"timeout", "429", "5xx"}

\* what each method hands to its caller for each answer: a fresh value, the
\* value kept from before ("stale", get_user_balance once a balance
\* exists), a failure value (None, [], False), or an exception ("raise")
CallResult(op, outcome) ==
    IF outcome = "ok" THEN "value"
    ELSE IF op = "ltp" THEN "raise"
    ELSE IF op = "balance" THEN "stale"
    ELSE "failure"

\* no call in progress
NoCall ==
    [op |-> "none", stage |-> "idle", limiter |-> "none", sleep_time |-> 0,
     wake |-> 0, attempts |-> 0, outcome |-> "none", result |-> "none"]

(***************************************************************************)
(* Initial state: the fields set by __init__ before it calls               *)
(* _initialize_balance_and_positions; the exchange may hold orders of an   *)
(* earlier run.                                                            *)
(***************************************************************************)
Init ==
    /\ pending_orders = EmptyMap
    /\ orders_placed = 0 /\ orders_filled = 0 /\ orders_cancelled = 0
    /\ api_error_count = 0
    /\ available_balance = 0
    /\ pc = "init" /\ attempt = 0 /\ cur = 0
    /\ ltp = 0 /\ position = NoPosition /\ signal = "none"
    /\ healthy = TRUE
    /\ accepting \in BOOLEAN
    /\ \E owner \in [LeftoverIds -> Symbols \cup {"none"}] :
          /\ accepting => \A i \in LeftoverIds : owner[i] = "none"
          /\ exOrders = [i \in { j \in LeftoverIds : owner[j] # "none" } |->
                            [symbol |-> owner[i], filled |-> 0, old |-> FALSE]]
    /\ exPos = [s \in Symbols |-> 0]
    /\ checkDue = TRUE
    /\ exchangeUp = FALSE
    /\ posOutcome = "none"
    /\ lastSeen = [s \in Symbols |-> "never"]
    /\ lookup = "none"
    /\ done = {}
    /\ issued = {}
    /\ now = StartTime
    /\ last_call_time = [l \in Limiters |-> 0]
    /\ call = NoCall

(***************************************************************************)
(* Order tracking                                                          *)
(***************************************************************************)
\* the entry pending_orders keeps for an order; old stands for
\* time() - placed_time > maker_order_timeout
OrderInfo(order_id, filled_amount, old) ==
    [order_id |-> order_id, fill_percentage |-> filled_amount,
     status |-> OrderStatus(filled_amount), old |-> old]

\* fetch_and_clean_open_orders, line 378: the startup scan cancels an
\* unresolved BUY LIMIT order on its age alone
StartupCancelDue(order) == order.old

\* check_and_clean_old_orders, line 581
AgeCancelDue(order_info) ==
    order_info.old /\ order_info.fill_percentage < 50

\* the symbols the clean-up marks for cancellation
OrdersToCancel ==
    { s \in DOMAIN pending_orders : AgeCancelDue(pending_orders[s]) }

\* a clean-up that drops and counts every order it tried to cancel
CleanOldOrders_Unchecked(confirmed) ==
    [pending |-> Remove(pending_orders, OrdersToCancel),
     cancelled |-> orders_cancelled + Cardinality(OrdersToCancel)]

\* a clean-up that counts every cancellation it asked for
CleanOldOrders_CountsAttempts(confirmed) ==
    [pending |-> Remove(pending_orders, confirmed),
     cancelled |-> orders_cancelled + Cardinality(OrdersToCancel)]

\* check_and_clean_old_orders, lines 586-589: confirmed is the set of marked
\* symbols whose cancel_order call returned True
CleanOldOrders(confirmed) ==
    [pending |-> Remove(pending_orders, confirmed),
     cancelled |-> orders_cancelled + Cardinality(confirmed)]

\* the sets of cancel calls the exchange may confirm among those issued: only
\* an order still open can be cancelled
Confirmable(order_ids) ==
    LET can == order_ids \cap DOMAIN exOrders
    IN  IF exchangeUp THEN {can} ELSE SUBSET can

\* update_pending_orders_from_api, lines 433-475, for the fetch outcomes
\* fo (one get_open_order_by_id call per tracked symbol)
UpdatePending(fo) ==
    LET data(s) == get_open_order_by_id(s, pending_orders[s].order_id, fo[s])
        gone == { s \in DOMAIN pending_orders : ~data(s).found }
        full == { s \in DOMAIN pending_orders :
                     data(s).found /\ OrderStatus(data(s).filled) = "FILLED" }
    IN  [pending |-> [s \in (DOMAIN pending_orders) \ (gone \cup full) |->
                         OrderInfo(pending_orders[s].order_id, data(s).filled,
                                   pending_orders[s].old)],
         filled |-> orders_filled + Cardinality(full)]

\* fetch_and_clean_open_orders, lines 327-400: open_orders is the fetched
\* list (every leftover is a BUY LIMIT order), scanned in id order
StartupScan(open_orders) ==
    LET live == { i \in open_orders :
                     OrderStatus(exOrders[i].filled) \in {"NEW", "PARTIALLY_FILLED"} }
        old == { i \in live : StartupCancelDue(exOrders[i]) }
        fresh == live \ old
        last(s) == CHOOSE i \in fresh :
                     /\ exOrders[i].symbol = s
                     /\ \A j \in fresh : exOrders[j].symbol = s => j <= i
    IN  [cancel |-> old,
         pending |-> IF open_orders = {} THEN pending_orders
                     ELSE [s \in { exOrders[i].symbol : i \in fresh } |->
                              OrderInfo(last(s), exOrders[last(s)].filled, FALSE)]]

(***************************************************************************)
(* Start-up: one attempt of _initialize_balance_and_positions              *)
(***************************************************************************)
\* a start-up that allows itself one attempt more
InitializeFails_ExtraAttempt ==
    /\ pc = "init"
    /\ IF attempt < max_retries
       THEN pc' = "init" /\ attempt' = attempt + 1
       ELSE pc' = "failed" /\ attempt' = 0
    /\ UNCHANGED << botVars, cur, localVars, healthy, envVars, histVars >>
    /\ UNCHANGED callVars

\* _update_balance raises: with no balance yet, every failure does
InitializeFails ==
    /\ pc = "init"
    /\ IF attempt < max_retries - 1
       THEN pc' = "init" /\ attempt' = attempt + 1
       ELSE pc' = "failed" /\ attempt' = 0
    /\ UNCHANGED << botVars, cur, localVars, healthy, envVars, histVars >>
    /\ UNCHANGED callVars

Initialize ==
    /\ pc = "init"
    /\ \E bal \in Balances, fo \in {"ok", "empty"} :
         LET scan == StartupScan(fetch_all_open_orders(fo)) IN
         \E confirmed \in Confirmable(scan.cancel) :
            /\ available_balance' = bal
            /\ pending_orders' = scan.pending
            /\ orders_cancelled' = orders_cancelled + Cardinality(confirmed)
            /\ exOrders' = Remove(exOrders, confirmed)
            /\ issued' = { [order_id |-> i, symbol |-> exOrders[i].symbol,
                            fill_percentage |-> exOrders[i].filled,
                            ok |-> cancel_order(IF i \in confirmed
                                                THEN "ok" ELSE "fail")] :
                           i \in scan.cancel }
    /\ pc' = "health"
    /\ attempt' = 0      \* the loop variable ends with the method
    /\ UNCHANGED << orders_placed, orders_filled, api_error_count, cur,
                    localVars, healthy, exPos, accepting, checkDue, exchangeUp,
                    posOutcome, lastSeen, lookup, done >>
    /\ UNCHANGED callVars

(***************************************************************************)
(* run(): one cycle                                                        *)
(***************************************************************************)
\* check_api_health: the result and the error counter after it
check_api_health(outcome) ==
    IF api_error_count > max_api_errors
    THEN [ok |-> FALSE, errors |-> api_error_count]
    ELSE IF outcome = "ok"
    THEN [ok |-> TRUE, errors |-> Max(0, api_error_count - 1)]
    ELSE [ok |-> FALSE, errors |-> api_error_count + 1]

\* a loop that ignores the result of the health check
AfterHealthCheck_Ignored(ok) == "update"

\* run, lines 1127-1130: an unhealthy API skips the rest of the cycle
AfterHealthCheck(ok) == IF ok THEN "update" ELSE "unhealthy_sleep"

CheckApiHealth ==
    /\ pc = "health"
    /\ \E outcome \in Outcomes({"ok"} \cup Counted({"fail"})) :
         LET h == check_api_health(outcome) IN
            /\ healthy' = h.ok
            /\ api_error_count' = h.errors
            /\ pc' = AfterHealthCheck(h.ok)
    /\ done' = {}
    /\ issued' = {}
    /\ UNCHANGED << pending_orders, orders_placed, orders_filled,
                    orders_cancelled, available_balance, attempt, cur,
                    localVars, envVars, posOutcome, lastSeen, lookup >>
    /\ UNCHANGED callVars

\* update_pending_orders_from_api, lines 423-428: the interval gate
UpdatePendingOrders ==
    /\ pc = "update"
    /\ IF ~checkDue
       THEN UNCHANGED << pending_orders, orders_filled, checkDue >>
       ELSE /\ checkDue' = FALSE
            /\ \E fo \in [DOMAIN pending_orders -> Outcomes({"ok", "empty"})] :
                 LET r == UpdatePending(fo) IN
                    /\ pending_orders' = r.pending
                    /\ orders_filled' = r.filled
    /\ pc' = "clean"
    /\ done' = done \cup {"reconcile"}
    /\ UNCHANGED << orders_placed, orders_cancelled, api_error_count,
                    available_balance, attempt, cur, localVars, healthy,
                    exOrders, exPos, accepting, exchangeUp,
                    posOutcome, lastSeen, lookup, issued >>
    /\ UNCHANGED callVars

CheckAndCleanOldOrders ==
    /\ pc = "clean"
    /\ LET marked == OrdersToCancel
           id(s) == pending_orders[s].order_id
       IN  \E confirmedIds \in Confirmable({ id(s) : s \in marked }) :
             LET confirmed == { s \in marked : id(s) \in confirmedIds }
                 r == CleanOldOrders(confirmed)
             IN  /\ pending_orders' = r.pending
                 /\ orders_cancelled' = r.cancelled
                 /\ exOrders' = Remove(exOrders, confirmedIds)
                 /\ issued' = { [order_id |-> id(s), symbol |-> s,
                                 fill_percentage |->
                                     pending_orders[s].fill_percentage,
                                 ok |-> cancel_order(IF s \in confirmed
                                                     THEN "ok" ELSE "fail")] :
                                s \in marked }
    /\ pc' = "balance"
    /\ done' = done \cup {"timeouts"}
    /\ UNCHANGED << orders_placed, orders_filled, api_error_count,
                    available_balance, attempt, cur, localVars, healthy,
                    exPos, accepting, checkDue, exchangeUp,
                    posOutcome, lastSeen, lookup >>
    /\ UNCHANGED callVars

\* _update_balance: a 429 or a transport error keeps the old values, any
\* other error raises and run() starts the next cycle
UpdateBalance ==
    /\ pc = "balance"
    /\ \E outcome \in Outcomes({"ok", "stale", "raise"}) :
         /\ IF outcome = "ok"
            THEN \E bal \in Balances : available_balance' = bal
            ELSE UNCHANGED available_balance
         /\ IF outcome = "raise"
            THEN pc' = "sleep" /\ cur' = 0
            ELSE pc' = "ltp" /\ cur' = 1
    /\ done' = done \cup {"balance"}
    /\ issued' = {}
    /\ UNCHANGED << pending_orders, orders_placed, orders_filled,
                    orders_cancelled, api_error_count, attempt, localVars,
                    healthy, envVars, posOutcome, lastSeen, lookup >>
    /\ UNCHANGED callVars

\* an error that ends the whole cycle instead of one instrument
NextInstrument_EndsCycle ==
    /\ pc' = "sleep" /\ cur' = 0
    /\ ltp' = 0 /\ position' = NoPosition /\ signal' = "none"
    /\ posOutcome' = "none" /\ lookup' = "none"

\* the for loop of run(): on to the next instrument, or to the sleep
NextInstrument ==
    /\ IF cur < Len(SYMBOL_CONFIG)
       THEN pc' = "ltp" /\ cur' = cur + 1
       ELSE pc' = "sleep" /\ cur' = 0
    /\ ltp' = 0 /\ position' = NoPosition /\ signal' = "none"
    /\ posOutcome' = "none" /\ lookup' = "none"

\* fetch_ltp: a price among those the exchange may quote, or an exception
\* caught at the instrument boundary
FetchLtpAmong(quotes) ==
    /\ pc = "ltp"
    /\ \E outcome \in Outcomes({"ok", "raise"}) :
         IF outcome = "ok"
         THEN /\ \E p \in quotes : ltp' = p
              /\ pc' = "position"
              /\ done' = done \cup {"price"}
              /\ UNCHANGED << cur, position, signal, posOutcome, lookup >>
         ELSE NextInstrument /\ UNCHANGED done
    /\ UNCHANGED << botVars, attempt, healthy, envVars, lastSeen, issued >>
    /\ UNCHANGED callVars

FetchLtp == FetchLtpAmong(Prices)

\* a loop that decides without having fetched the position
GetPosition_Skipped ==
    /\ pc = "position"
    /\ pc' = "signal"
    /\ UNCHANGED << botVars, attempt, cur, localVars, healthy, envVars,
                    histVars >>
    /\ UNCHANGED callVars

GetPosition ==
    /\ pc = "position"
    /\ \E outcome \in Outcomes({"ok", "429", "raise"} \cup Counted({"error"})) :
         IF outcome = "raise"
         THEN NextInstrument
              /\ UNCHANGED << api_error_count, lastSeen, done >>
         ELSE /\ position' = get_position(SYMBOL_CONFIG[cur].symbol, outcome)
              /\ api_error_count' = PositionErrorCount(outcome)
              /\ posOutcome' = outcome
              /\ lastSeen' =
                   IF outcome = "ok"
                   THEN [lastSeen EXCEPT ![SYMBOL_CONFIG[cur].symbol] =
                            IF exPos[SYMBOL_CONFIG[cur].symbol] > 0
                            THEN "open" ELSE "flat"]
                   ELSE lastSeen
              /\ pc' = "signal"
              /\ done' = done \cup {"position"}
              /\ UNCHANGED << cur, ltp, signal, lookup >>
    /\ UNCHANGED << pending_orders, orders_placed, orders_filled,
                    orders_cancelled, available_balance, attempt, healthy,
                    envVars, issued >>
    /\ UNCHANGED callVars

GetSignal ==
    /\ pc = "signal"
    /\ LET symbol == SYMBOL_CONFIG[cur].symbol IN
       \E outcome \in Outcomes({"ok", "empty"}) :
         LET r == SignalLookup(symbol, outcome) IN
            /\ pending_orders' = r.pending
            /\ orders_filled' = r.filled
            /\ lookup' = r.found
            /\ signal' = get_signal(r.found, ltp, position,
                                    SYMBOL_CONFIG[cur].qty)
    /\ pc' = "act"
    /\ UNCHANGED << orders_placed, orders_cancelled, api_error_count,
                    available_balance, attempt, cur, ltp, position, healthy,
                    envVars, posOutcome, lastSeen, done, issued >>
    /\ UNCHANGED callVars

\* run, line 1202: the condition under which place_maker_order is called
ShouldPlace ==
    /\ signal = "buy"
    /\ check_risk_limits(SYMBOL_CONFIG[cur].symbol, SYMBOL_CONFIG[cur].qty, ltp)

\* the id the exchange gives the next order it accepts
NextOrderId == MaxLeftover + orders_placed + 1

\* a placement that counts the request, not the acceptance
PlaceMakerOrder_CountsRejected ==
    /\ pc = "act"
    /\ ShouldPlace
    /\ \E outcome \in (IF accepting /\ orders_placed < MaxPlaced
                       THEN Outcomes({"201", "rejected"}) ELSE {"rejected"}) :
         IF outcome # "rejected"
         THEN /\ pending_orders' = Put(pending_orders, SYMBOL_CONFIG[cur].symbol,
                                       OrderInfo(NextOrderId, 0, FALSE))
              /\ orders_placed' = orders_placed + 1
              /\ exOrders' = Put(exOrders, NextOrderId,
                                 [symbol |-> SYMBOL_CONFIG[cur].symbol,
                                  filled |-> 0, old |-> FALSE])
         ELSE /\ orders_placed' = IF orders_placed < MaxPlaced
                                  THEN orders_placed + 1 ELSE orders_placed
              /\ UNCHANGED << pending_orders, exOrders >>
    /\ NextInstrument
    /\ UNCHANGED << orders_filled, orders_cancelled, api_error_count,
                    available_balance, attempt, healthy, exPos, accepting,
                    checkDue, exchangeUp, lastSeen, done, issued >>
    /\ UNCHANGED callVars

\* place_maker_order: HTTP 201 tracks the order, anything else changes nothing
PlaceMakerOrder ==
    /\ pc = "act"
    /\ ShouldPlace
    /\ \E outcome \in (IF accepting /\ orders_placed < MaxPlaced
                       THEN Outcomes({"201", "rejected"}) ELSE {"rejected"}) :
         IF outcome # "rejected"
         THEN /\ pending_orders' = Put(pending_orders, SYMBOL_CONFIG[cur].symbol,
                                       OrderInfo(NextOrderId, 0, FALSE))
              /\ orders_placed' = orders_placed + 1
              /\ exOrders' = Put(exOrders, NextOrderId,
                                 [symbol |-> SYMBOL_CONFIG[cur].symbol,
                                  filled |-> 0, old |-> FALSE])
         ELSE UNCHANGED << pending_orders, orders_placed, exOrders >>
    /\ NextInstrument
    /\ UNCHANGED << orders_filled, orders_cancelled, api_error_count,
                    available_balance, attempt, healthy, exPos, accepting,
                    checkDue, exchangeUp, lastSeen, done, issued >>
    /\ UNCHANGED callVars

SkipOrder ==
    /\ pc = "act"
    /\ ~ShouldPlace
    /\ NextInstrument
    /\ UNCHANGED << botVars, attempt, healthy, envVars, lastSeen, done, issued >>
    /\ UNCHANGED callVars

\* a loop that ends after its first cycle
Sleep_EndsLoop ==
    /\ pc \in {"sleep", "unhealthy_sleep"}
    /\ pc' = "ended"
    /\ UNCHANGED << botVars, attempt, cur, localVars, healthy, envVars,
                    histVars >>
    /\ UNCHANGED callVars

\* the sleeps of run(): 60 s when unhealthy, 5 s after a balance error,
\* 15 s at the end of a cycle
Sleep ==
    /\ pc \in {"sleep", "unhealthy_sleep"}
    /\ pc' = "health"
    /\ UNCHANGED << botVars, attempt, cur, localVars, healthy, envVars,
                    histVars >>
    /\ UNCHANGED callVars

(***************************************************************************)
(* The exchange and the clock                                              *)
(***************************************************************************)
\* the orders whose state the bot can still observe: every open order until
\* the startup scan, the tracked ones after it
TrackedIds == { pending_orders[s].order_id : s \in DOMAIN pending_orders }

Observable == IF pc = "init" THEN DOMAIN exOrders ELSE TrackedIds

\* an open order fills further
FillProgress ==
    /\ \E i \in Observable \cap DOMAIN exOrders, f \in FillLevels :
         /\ f > exOrders[i].filled
         /\ exOrders' = [exOrders EXCEPT ![i].filled = f]
    /\ UNCHANGED << botVars, pc, attempt, cur, localVars, healthy, exPos,
                    accepting, checkDue, exchangeUp, histVars >>
    /\ UNCHANGED callVars

\* a filled order leaves the open-order list; its quantity is in the position
OrderFilled ==
    /\ \E i \in DOMAIN exOrders :
         /\ exOrders' = Remove(exOrders, {i})
         /\ exPos' = [exPos EXCEPT ![exOrders[i].symbol] =
                         IF @ < MaxPos THEN @ + 1 ELSE @]
    /\ UNCHANGED << botVars, pc, attempt, cur, localVars, healthy,
                    accepting, checkDue, exchangeUp, histVars >>
    /\ UNCHANGED callVars

\* maker_order_timeout elapses for the oldest observable order not yet old
OrderAges ==
    /\ LET young == { i \in Observable :
                        \/ i \in DOMAIN exOrders /\ ~exOrders[i].old
                        \/ \E s \in DOMAIN pending_orders :
                             /\ pending_orders[s].order_id = i
                             /\ ~pending_orders[s].old }
       IN  /\ young # {}
           /\ LET i == CHOOSE j \in young : \A k \in young : j <= k IN
                 /\ exOrders' = [j \in DOMAIN exOrders |->
                                   IF j = i THEN [exOrders[j] EXCEPT !.old = TRUE]
                                   ELSE exOrders[j]]
                 /\ pending_orders' =
                      [s \in DOMAIN pending_orders |->
                         IF pending_orders[s].order_id = i
                         THEN [pending_orders[s] EXCEPT !.old = TRUE]
                         ELSE pending_orders[s]]
    /\ UNCHANGED << orders_placed, orders_filled, orders_cancelled,
                    api_error_count, available_balance, pc, attempt, cur,
                    localVars, healthy, exPos, accepting, checkDue, exchangeUp,
                    histVars >>
    /\ UNCHANGED callVars

\* order_check_interval elapses since last_order_check
CheckIntervalElapses ==
    /\ ~checkDue
    /\ checkDue' = TRUE
    /\ UNCHANGED << botVars, pc, attempt, cur, localVars, healthy, exOrders,
                    exPos, accepting, exchangeUp, histVars >>
    /\ UNCHANGED callVars

\* the exchange recovers for good while the circuit breaker is open
ExchangeRecovers ==
    /\ ~exchangeUp
    /\ api_error_count > max_api_errors
    /\ exchangeUp' = TRUE
    /\ UNCHANGED << botVars, pc, attempt, cur, localVars, healthy, exOrders,
                    exPos, accepting, checkDue, histVars >>
    /\ UNCHANGED callVars

\* the steps of the bot's thread
Bot ==
    \/ InitializeFails
    \/ Initialize
    \/ CheckApiHealth
    \/ UpdatePendingOrders
    \/ CheckAndCleanOldOrders
    \/ UpdateBalance
    \/ FetchLtp
    \/ GetPosition
    \/ GetSignal
    \/ PlaceMakerOrder
    \/ SkipOrder
    \/ Sleep

Next ==
    \/ InitializeFails
    \/ Initialize
    \/ CheckApiHealth
    \/ UpdatePendingOrders
    \/ CheckAndCleanOldOrders
    \/ UpdateBalance
    \/ FetchLtp
    \/ GetPosition
    \/ GetSignal
    \/ PlaceMakerOrder
    \/ SkipOrder
    \/ Sleep
    \/ FillProgress
    \/ OrderFilled
    \/ OrderAges
    \/ CheckIntervalElapses
    \/ ExchangeRecovers

Spec == Init /\ [][Next]_vars

\* the thread of run() always takes its next step: no call blocks forever
\* (every request has a timeout) and every sleep ends
FairSpec == Spec /\ WF_vars(Bot)

\* the runs in which the exchange accepts no order (orders of an earlier run
\* may be open, every kind of failure occurs), with the same fairness
RejectingInit == Init /\ ~accepting

RejectingSpec == RejectingInit /\ [][Next]_vars /\ WF_vars(Bot)

(***************************************************************************)
(* get_signal on its own: one call on every combination of price, position *)
(* and tracked order within the bounds                                     *)
(***************************************************************************)
\* the largest buy_count of a position handed to get_signal
MaxSteps == 9

LadderPrices == {930, 984, 985, 992, 993, 1000}
LiqPrices == {900, 983}

\* the positions get_position can return for an instrument of base quantity
\* qty: whole and fractional multiples of it
Positions(qty) ==
    {NoPosition} \cup
    { [qty |-> k * qty + r, avg |-> EntryPrice.avg, liq |-> l] :
         k \in 1..MaxSteps, r \in {0, qty \div 2}, l \in LiqPrices }

SignalInit ==
    /\ pc = "signal" /\ attempt = 0
    /\ cur \in 1..Len(SYMBOL_CONFIG)
    /\ ltp \in LadderPrices
    /\ position \in Positions(SYMBOL_CONFIG[cur].qty)
    /\ signal = "none"
    /\ \E tracked \in BOOLEAN, listed \in {-1} \cup FillLevels :
          /\ pending_orders =
                IF tracked
                THEN Put(EmptyMap, SYMBOL_CONFIG[cur].symbol, OrderInfo(1, 0, FALSE))
                ELSE EmptyMap
          /\ exOrders =
                IF listed < 0 THEN EmptyMap
                ELSE Put(EmptyMap, 1, [symbol |-> SYMBOL_CONFIG[cur].symbol,
                                       filled |-> listed, old |-> FALSE])
    /\ orders_placed = 0 /\ orders_filled = 0 /\ orders_cancelled = 0
    /\ api_error_count = 0
    /\ available_balance = 0
    /\ healthy = TRUE
    /\ exPos = [s \in Symbols |-> 0]
    /\ accepting = FALSE /\ checkDue = TRUE /\ exchangeUp = FALSE
    /\ posOutcome = "ok"
    /\ lastSeen = [s \in Symbols |-> "never"]
    /\ lookup = "none" /\ done = {} /\ issued = {}
    /\ now = StartTime
    /\ last_call_time = [l \in Limiters |-> 0]
    /\ call = NoCall

SignalNext == GetSignal

SignalSpec == SignalInit /\ [][SignalNext]_vars

(***************************************************************************)
(* One exchange-client call on its own: the limiter, the request, the      *)
(* answer and what the method hands back, for every operation in turn      *)
(***************************************************************************)
ClientInit ==
    /\ pending_orders = EmptyMap
    /\ orders_placed = 0 /\ orders_filled = 0 /\ orders_cancelled = 0
    /\ api_error_count = 0
    /\ available_balance = 0
    /\ pc = "client" /\ attempt = 0 /\ cur = 0
    /\ ltp = 0 /\ position = NoPosition /\ signal = "none"
    /\ healthy = TRUE
    /\ exOrders = EmptyMap
    /\ exPos = [s \in Symbols |-> 0]
    /\ accepting = FALSE /\ checkDue = TRUE /\ exchangeUp = FALSE
    /\ posOutcome = "none"
    /\ lastSeen = [s \in Symbols |-> "never"]
    /\ lookup = "none" /\ done = {} /\ issued = {}
    /\ now = StartTime
    /\ last_call_time = [l \in Limiters |-> 0]
    /\ call = NoCall

\* a method of the client is called
BeginCall ==
    /\ call.stage = "idle"
    /\ \E op \in Operations :
         call' = [NoCall EXCEPT !.op = op, !.limiter = LimiterOf(op),
                                !.stage = "wait"]
    /\ UNCHANGED << now, last_call_time >>
    /\ UNCHANGED runVars

\* RateLimiter.wait, lines 131-136: read the clock, decide how long to sleep
LimiterWait ==
    /\ call.stage = "wait"
    /\ LET sleep_time == SleepTime(call.limiter, now) IN
          call' = [call EXCEPT !.sleep_time = sleep_time,
                               !.wake = now + sleep_time,
                               !.stage = "sleep"]
    /\ UNCHANGED << now, last_call_time >>
    /\ UNCHANGED runVars

\* RateLimiter.wait, line 138: time.sleep has lasted at least sleep_time;
\* the clock is read again
LimiterReturn ==
    /\ call.stage = "sleep"
    /\ now >= call.wake
    /\ last_call_time' = [last_call_time EXCEPT ![call.limiter] = now]
    /\ call' = [call EXCEPT !.stage = "request"]
    /\ UNCHANGED now
    /\ UNCHANGED runVars

\* the one request of the method and what the method makes of the answer:
\* no method has a loop around its request
SendRequest ==
    /\ call.stage = "request"
    /\ \E outcome \in RequestOutcomes :
         call' = [call EXCEPT !.attempts = @ + 1,
                              !.outcome = outcome,
                              !.result = CallResult(call.op, outcome),
                              !.stage = "done"]
    /\ UNCHANGED << now, last_call_time >>
    /\ UNCHANGED runVars

\* the caller has taken the result
EndCall ==
    /\ call.stage = "done"
    /\ call' = NoCall
    /\ UNCHANGED << now, last_call_time >>
    /\ UNCHANGED runVars

\* the clock advances (it never goes back)
Tick ==
    /\ now < MaxTime
    /\ now' = now + 1
    /\ UNCHANGED << last_call_time, call >>
    /\ UNCHANGED runVars

ClientNext ==
    \/ BeginCall
    \/ LimiterWait
    \/ LimiterReturn
    \/ SendRequest
    \/ EndCall
    \/ Tick

ClientSpec == ClientInit /\ [][ClientNext]_vars

(***************************************************************************)
(* A termination signal while the bot changes an order.  The handler is a  *)
(* Python signal handler: it runs in the thread of run() between two       *)
(* bytecodes or in place of a blocked system call, and its sys.exit raises *)
(* SystemExit at the point it interrupted.  One placement and one age-based*)
(* clean-up are followed here with the request and the bookkeeping as      *)
(* separate steps.                                                         *)
(***************************************************************************)
\* the orders this run placed earlier and still tracks, numbered in the
\* order of placement
EarlierOrder(tracked, i) ==
    MaxLeftover + Cardinality({ j \in tracked : j <= i })

ShutdownInit ==
    /\ \E tracked \in SUBSET (1..Len(SYMBOL_CONFIG)), old \in BOOLEAN :
          /\ pending_orders =
                [s \in { SYMBOL_CONFIG[i].symbol : i \in tracked } |->
                    LET i == CHOOSE j \in tracked : SYMBOL_CONFIG[j].symbol = s
                    IN  OrderInfo(EarlierOrder(tracked, i), 0, old)]
          /\ exOrders =
                [id \in { EarlierOrder(tracked, i) : i \in tracked } |->
                    LET i == CHOOSE j \in tracked : EarlierOrder(tracked, j) = id
                    IN  [symbol |-> SYMBOL_CONFIG[i].symbol, filled |-> 0,
                         old |-> old]]
          /\ orders_placed = Cardinality(tracked)
          /\ \/ /\ pc = "clean" /\ cur = 0
                /\ tracked # {} /\ old
                /\ ltp = 0 /\ signal = "none"
                /\ posOutcome = "none" /\ lookup = "none"
                /\ done = {"reconcile"}
             \/ /\ pc = "act" /\ cur \in (1..Len(SYMBOL_CONFIG)) \ tracked
                /\ ltp \in Prices /\ signal = "buy"
                /\ posOutcome = "ok" /\ lookup = "untracked"
                /\ done = {"reconcile", "timeouts", "balance", "price",
                           "position"}
    /\ orders_filled = 0 /\ orders_cancelled = 0
    /\ api_error_count = 0
    /\ available_balance = 100
    /\ attempt = 0
    /\ position = NoPosition
    /\ healthy = TRUE
    /\ exPos = [s \in Symbols |-> 0]
    /\ accepting \in BOOLEAN
    /\ checkDue = FALSE
    /\ exchangeUp \in BOOLEAN
    /\ lastSeen = [s \in Symbols |-> "never"]
    /\ issued = {}
    /\ now = StartTime
    /\ last_call_time = [l \in Limiters |-> 0]
    /\ call = NoCall

\* place_maker_order up to the requests.post of line 1018: the exchange
\* has answered, nothing is recorded yet
SendPlaceRequest ==
    /\ pc = "act"
    /\ ShouldPlace
    /\ \E outcome \in (IF accepting /\ orders_placed < MaxPlaced
                       THEN Outcomes({"201", "rejected"}) ELSE {"rejected"}) :
         exOrders' = IF outcome = "201"
                     THEN Put(exOrders, NextOrderId,
                              [symbol |-> SYMBOL_CONFIG[cur].symbol,
                               filled |-> 0, old |-> FALSE])
                     ELSE exOrders
    /\ pc' = "placing"
    /\ UNCHANGED << botVars, attempt, cur, localVars, healthy, exPos,
                    accepting, checkDue, exchangeUp, histVars >>
    /\ UNCHANGED callVars

\* place_maker_order, lines 1025-1046: the bookkeeping of an accepted order
RecordPlacement ==
    /\ pc = "placing"
    /\ IF NextOrderId \in DOMAIN exOrders
       THEN /\ pending_orders' = Put(pending_orders, SYMBOL_CONFIG[cur].symbol,
                                     OrderInfo(NextOrderId, 0, FALSE))
            /\ orders_placed' = orders_placed + 1
       ELSE UNCHANGED << pending_orders, orders_placed >>
    /\ NextInstrument
    /\ UNCHANGED << orders_filled, orders_cancelled, api_error_count,
                    available_balance, attempt, healthy, envVars, lastSeen,
                    done, issued >>
    /\ UNCHANGED callVars

\* the tracked orders check_and_clean_old_orders has marked and not yet
\* tried to cancel
StillMarked == OrdersToCancel \ { r.symbol : r \in issued }

\* check_and_clean_old_orders, line 587, up to the requests.delete of
\* cancel_order (line 509): the exchange has answered
SendCancelRequest ==
    /\ pc = "clean"
    /\ \E s \in StillMarked :
       \E confirmedIds \in Confirmable({pending_orders[s].order_id}) :
          /\ exOrders' = Remove(exOrders, confirmedIds)
          /\ issued' = issued \cup
                {[order_id |-> pending_orders[s].order_id, symbol |-> s,
                  fill_percentage |-> pending_orders[s].fill_percentage,
                  ok |-> cancel_order(IF confirmedIds # {} THEN "ok"
                                      ELSE "fail")]}
    /\ pc' = "cancelling"
    /\ UNCHANGED << botVars, attempt, cur, localVars, healthy, exPos,
                    accepting, checkDue, exchangeUp, posOutcome, lastSeen,
                    lookup, done >>
    /\ UNCHANGED callVars

\* cancel_order, lines 516-519, and check_and_clean_old_orders, lines
\* 587-589: the bookkeeping of a confirmed cancellation
RecordCancel ==
    /\ pc = "cancelling"
    /\ LET confirmed == { r.symbol : r \in { q \in issued : q.ok } }
                           \cap DOMAIN pending_orders
           r == CleanOldOrders(confirmed)
       IN  /\ pending_orders' = r.pending
           /\ orders_cancelled' = r.cancelled
    /\ pc' = IF StillMarked = {} THEN "balance" ELSE "clean"
    /\ done' = IF StillMarked = {} THEN done \cup {"timeouts"} ELSE done
    /\ UNCHANGED << orders_placed, orders_filled, api_error_count,
                    available_balance, attempt, cur, localVars, healthy,
                    envVars, posOutcome, lastSeen, lookup, issued >>
    /\ UNCHANGED callVars

\* cancel_all_pending_orders, lines 535-563: every open BUY LIMIT order of
\* the account is cancelled and the tracking is cleared; an empty or failed
\* listing returns before the clear
CancelAllPendingOrders ==
    \E outcome \in Outcomes({"ok", "fail"}) :
       LET open_orders == fetch_all_open_orders(outcome) IN
       \E confirmedIds \in Confirmable(open_orders) :
          /\ exOrders' = Remove(exOrders, confirmedIds)
          /\ orders_cancelled' = orders_cancelled + Cardinality(confirmedIds)
          /\ pending_orders' = IF open_orders = {} THEN pending_orders
                               ELSE EmptyMap

\* _signal_handler, lines 619-627: the orders are cancelled and sys.exit
\* ends the process where it was (inside the try of check_api_health the
\* exit is caught, see SignalSwallowed)
SignalHandler ==
    /\ pc \notin {"exited", "probing"}
    /\ CancelAllPendingOrders
    /\ pc' = "exited"
    /\ UNCHANGED << orders_placed, orders_filled, api_error_count,
                    available_balance, attempt, cur, localVars, healthy,
                    exPos, accepting, checkDue, exchangeUp, histVars >>
    /\ UNCHANGED callVars

ShutdownNext ==
    \/ SendPlaceRequest
    \/ RecordPlacement
    \/ SendCancelRequest
    \/ RecordCancel
    \/ SignalHandler

ShutdownSpec == ShutdownInit /\ [][ShutdownNext]_vars

(***************************************************************************)
(* A termination signal at any point of a cycle.  The thread of run() goes *)
(* round its cycles with the order requests split as above and the health  *)
(* check split at its try block, whose bare except also catches the        *)
(* SystemExit of the handler.  is_running is part of pc: it is False in    *)
(* "stopping" and "exited".  The exchange changes nothing on its own here. *)
(***************************************************************************)
TerminationInit ==
    /\ \E tracked \in SUBSET (1..Len(SYMBOL_CONFIG)), old \in BOOLEAN :
          /\ pending_orders =
                [s \in { SYMBOL_CONFIG[i].symbol : i \in tracked } |->
                    LET i == CHOOSE j \in tracked : SYMBOL_CONFIG[j].symbol = s
                    IN  OrderInfo(EarlierOrder(tracked, i), 0, old)]
          /\ exOrders =
                [id \in { EarlierOrder(tracked, i) : i \in tracked } |->
                    LET i == CHOOSE j \in tracked : EarlierOrder(tracked, j) = id
                    IN  [symbol |-> SYMBOL_CONFIG[i].symbol, filled |-> 0,
                         old |-> old]]
          /\ orders_placed = Cardinality(tracked)
    /\ pc = "health" /\ cur = 0
    /\ ltp = 0 /\ position = NoPosition /\ signal = "none"
    /\ posOutcome = "none" /\ lookup = "none"
    /\ done = {} /\ issued = {}
    /\ orders_filled = 0 /\ orders_cancelled = 0
    /\ api_error_count = 0
    /\ available_balance = 100
    /\ attempt = 0
    /\ healthy = TRUE
    /\ exPos = [s \in Symbols |-> 0]
    /\ accepting \in BOOLEAN
    /\ checkDue \in BOOLEAN
    /\ exchangeUp \in BOOLEAN
    /\ lastSeen = [s \in Symbols |-> "never"]
    /\ now = StartTime
    /\ last_call_time = [l \in Limiters |-> 0]
    /\ call = NoCall

\* check_api_health, lines 1079-1083: the threshold test, then into the try
BeginHealthCheck ==
    /\ pc = "health"
    /\ IF api_error_count > max_api_errors
       THEN /\ healthy' = FALSE
            /\ pc' = AfterHealthCheck(FALSE)
       ELSE /\ pc' = "probing"
            /\ UNCHANGED healthy
    /\ done' = {}
    /\ issued' = {}
    /\ UNCHANGED << botVars, attempt, cur, localVars, envVars, posOutcome,
                    lastSeen, lookup >>
    /\ UNCHANGED callVars

\* check_api_health, lines 1084-1109: the probe and its result
EndHealthCheck ==
    /\ pc = "probing"
    /\ \E outcome \in Outcomes({"ok", "fail"}) :
         LET h == check_api_health(outcome) IN
            /\ healthy' = h.ok
            /\ api_error_count' = h.errors
            /\ pc' = AfterHealthCheck(h.ok)
    /\ UNCHANGED << pending_orders, orders_placed, orders_filled,
                    orders_cancelled, available_balance, attempt, cur,
                    localVars, envVars, histVars >>
    /\ UNCHANGED callVars

\* check_and_clean_old_orders with no order marked
NothingToCancel ==
    /\ pc = "clean"
    /\ OrdersToCancel = {}
    /\ pc' = "balance"
    /\ done' = done \cup {"timeouts"}
    /\ UNCHANGED << botVars, attempt, cur, localVars, healthy, envVars,
                    posOutcome, lastSeen, lookup, issued >>
    /\ UNCHANGED callVars

\* the signal arrives inside the try of check_api_health: the handler runs,
\* its SystemExit is caught by the bare except of line 1107, the check
\* returns False and run() goes into its 60 s sleep with is_running False
SignalSwallowed ==
    /\ pc = "probing"
    /\ CancelAllPendingOrders
    /\ api_error_count' = api_error_count + 1
    /\ healthy' = FALSE
    /\ pc' = "stopping"
    /\ UNCHANGED << orders_placed, orders_filled, available_balance, attempt,
                    cur, localVars, exPos, accepting, checkDue, exchangeUp,
                    histVars >>
    /\ UNCHANGED callVars

\* a loop that does not look at is_running
RunReturns_KeepsRunning ==
    /\ pc = "stopping"
    /\ pc' = "health"
    /\ UNCHANGED << botVars, attempt, cur, localVars, healthy, envVars,
                    histVars >>
    /\ UNCHANGED callVars

\* run, lines 1129-1130 and 1122: after the sleep the while condition is
\* False, run() returns and the process ends
RunReturns ==
    /\ pc = "stopping"
    /\ pc' = "exited"
    /\ UNCHANGED << botVars, attempt, cur, localVars, healthy, envVars,
                    histVars >>
    /\ UNCHANGED callVars

\* the steps of the thread of run()
TerminationBot ==
    \/ BeginHealthCheck
    \/ EndHealthCheck
    \/ UpdatePendingOrders
    \/ NothingToCancel
    \/ SendCancelRequest
    \/ RecordCancel
    \/ UpdateBalance
    \/ FetchLtp
    \/ GetPosition
    \/ GetSignal
    \/ SendPlaceRequest
    \/ RecordPlacement
    \/ SkipOrder
    \/ Sleep
    \/ RunReturns

TerminationNext ==
    \/ BeginHealthCheck
    \/ EndHealthCheck
    \/ UpdatePendingOrders
    \/ NothingToCancel
    \/ SendCancelRequest
    \/ RecordCancel
    \/ UpdateBalance
    \/ FetchLtp
    \/ GetPosition
    \/ GetSignal
    \/ SendPlaceRequest
    \/ RecordPlacement
    \/ SkipOrder
    \/ Sleep
    \/ RunReturns
    \/ SignalHandler
    \/ SignalSwallowed

\* every step of the thread ends: requests have timeouts, sleeps are finite
TerminationSpec ==
    TerminationInit /\ [][TerminationNext]_vars /\ WF_vars(TerminationBot)

(***************************************************************************)
(* The instrument loop of one cycle on its own: the balance is the one the *)
(* cycle's refresh left, nothing is placed or tracked yet, and the quotes  *)
(* are of the size at which the margin of an order is comparable with the  *)
(* balance.                                                                *)
(***************************************************************************)
\* the quotes of this cycle, in the units of available_balance
CyclePrices == {441000, 450000}

CycleInit ==
    /\ pending_orders = EmptyMap
    /\ orders_placed = 0 /\ orders_filled = 0 /\ orders_cancelled = 0
    /\ api_error_count = 0
    /\ available_balance \in Balances
    /\ pc = "ltp" /\ attempt = 0 /\ cur = 1
    /\ ltp = 0 /\ position = NoPosition /\ signal = "none"
    /\ healthy = TRUE
    /\ exOrders = EmptyMap
    /\ exPos = [s \in Symbols |-> 0]
    /\ accepting \in BOOLEAN
    /\ checkDue \in BOOLEAN
    /\ exchangeUp \in BOOLEAN
    /\ posOutcome = "none"
    /\ lastSeen \in [Symbols -> {"never", "flat"}]
    /\ lookup = "none"
    /\ done = {"reconcile", "timeouts", "balance"}
    /\ issued = {}
    /\ now = StartTime
    /\ last_call_time = [l \in Limiters |-> 0]
    /\ call = NoCall

CycleFetchLtp == FetchLtpAmong(CyclePrices)

CycleNext ==
    \/ CycleFetchLtp
    \/ GetPosition
    \/ GetSignal
    \/ PlaceMakerOrder
    \/ SkipOrder

CycleSpec == CycleInit /\ [][CycleNext]_vars

(***************************************************************************)
(* Properties                                                              *)
(***************************************************************************)
\* the engine's own entry orders for a symbol that are open on the exchange
OpenEntries(s) ==
    { i \in DOMAIN exOrders :
         /\ i > MaxLeftover
         /\ exOrders[i].symbol = s
         /\ OrderStatus(exOrders[i].filled) \in {"NEW", "PARTIALLY_FILLED"} }

\* the position fetch of this cycle for the current symbol failed
PositionFetchFailed == posOutcome \in {"429", "error"}

\* C1: at any time at most one BUY LIMIT entry order placed by the engine is
\* open (NEW or PARTIALLY_FILLED) on the exchange for each symbol, also when
\* open-order fetches fail or return an empty list.  The code breaks it: a
\* failed fetch reads as "order gone", the entry is dropped and a second
\* order is placed.
C1_OneOpenEntryPerSymbol ==
    \A s \in Symbols : Cardinality(OpenEntries(s)) <= 1

\* C2: when the position fetch of a symbol fails after an earlier fetch showed
\* an open position, the decision step gets the position seen before, never
\* "no position".  The code has no cache: the failed fetch yields None.
C2_FailedFetchKeepsPosition ==
    (/\ pc = "signal"
     /\ PositionFetchFailed
     /\ lastSeen[SYMBOL_CONFIG[cur].symbol] = "open")
        => position # NoPosition

\* C3: no entry order is placed for a symbol in a cycle whose position fetch
\* failed when no position value was ever observed for it.  The code treats
\* the failed fetch as "flat" and buys.
C3_UnknownPositionHolds ==
    [][(/\ pc = "act"
        /\ PositionFetchFailed
        /\ lastSeen[SYMBOL_CONFIG[cur].symbol] = "never")
          => orders_placed' = orders_placed]_vars

\* C4: once api_error_count has exceeded max_api_errors and every exchange
\* call succeeds from some point on, the counter eventually decays to the
\* threshold or below and the health check passes again.  In the code the
\* open breaker returns before the probe, so the counter never decays.
C4_BreakerRecovers ==
    exchangeUp ~> (healthy /\ api_error_count <= max_api_errors)

\* C5: in a cycle whose health check failed (counter above max_api_errors or
\* probe failed) the loop never reaches the step that calls
\* place_maker_order.
C5_NoPlacementWhenUnhealthy ==
    ~healthy => pc \notin {"ltp", "position", "signal", "act"}

\* C5 happens: a cycle ended by a failed health check
C5_Witness ==
    pc = "unhealthy_sleep" /\ ~healthy /\ api_error_count > max_api_errors

\* C6: an unhealthy cycle still reconciles the pending orders, cancels timed
\* out ones and refreshes the balance; only placement is skipped.  In the
\* code the unhealthy cycle skips all of it.
C6_MonitoringContinues ==
    pc = "unhealthy_sleep" => {"reconcile", "timeouts", "balance"} \subseteq done

\* C7: when get_signal finds the tracked order of the symbol still NEW or
\* PARTIALLY_FILLED on the exchange's open-order list, it returns "pending"
\* whatever the price and position, the entry stays tracked, and no order is
\* placed for the symbol in that cycle.
C7_PendingBlocksEntry ==
    (pc = "act" /\ lookup = "open")
        => /\ signal = "pending"
           /\ SYMBOL_CONFIG[cur].symbol \in DOMAIN pending_orders
           /\ ~ENABLED PlaceMakerOrder

\* C7 happens: the order was found open at a price, position and balance for
\* which the ladder alone would buy
C7_Witness ==
    /\ pc = "act" /\ lookup = "open"
    /\ Ladder(ltp, position, SYMBOL_CONFIG[cur].qty) = "buy"
    /\ check_risk_limits(SYMBOL_CONFIG[cur].symbol, SYMBOL_CONFIG[cur].qty, ltp)

\* the tracked symbols a reconciliation step drops whose order is no longer
\* on the exchange's open-order list
Disappeared ==
    { s \in (DOMAIN pending_orders) \ (DOMAIN pending_orders') :
         pending_orders[s].order_id \notin DOMAIN exOrders }

\* C8: when reconciliation (in update_pending_orders_from_api or get_signal)
\* drops a tracked order because the open-order list no longer shows it,
\* orders_filled grows by one for each such order.  The code drops the entry
\* and leaves the counter alone.
C8_DisappearedCountsAsFilled ==
    [][(pc \in {"update", "signal"} /\ Disappeared # {})
          => orders_filled' >= orders_filled + Cardinality(Disappeared)]_vars

\* C9: a cancellation for age is issued only for an order whose fill
\* percentage is below 50, at startup and in every cycle.  The startup scan
\* cancels on age alone.
C9_NoCancelOfMostlyFilled ==
    \A c \in issued : c.fill_percentage < 50

\* C10: in check_and_clean_old_orders each cancellation the exchange confirms
\* removes the order from pending_orders and adds exactly 1 to
\* orders_cancelled; a failed one leaves the order tracked and the counter
\* unchanged.
C10_CleanupFollowsCancelResult ==
    [][(pc = "clean" /\ pc' = "balance")
          => /\ orders_cancelled' = orders_cancelled +
                   Cardinality({ c \in issued' : c.ok })
             /\ \A c \in issued' :
                   IF c.ok
                   THEN c.symbol \notin DOMAIN pending_orders'
                   ELSE /\ c.symbol \in DOMAIN pending_orders'
                        /\ pending_orders'[c.symbol] = pending_orders[c.symbol]]_vars

\* C10 happens: one clean-up with a confirmed and a failed cancellation
C10_Witness ==
    /\ pc = "balance"
    /\ \E a, b \in issued : a.ok /\ ~b.ok

\* qty * price / leverage > available_balance * max_margin_usage for the
\* current instrument at the fetched price
MarginExceeded ==
    SYMBOL_CONFIG[cur].qty * ltp * 10 >
        available_balance * max_margin_usage * 1000 * SYMBOL_CONFIG[cur].leverage

\* C11: the act step of an instrument places an order only if the signal is
\* "buy" and the margin needed does not exceed available_balance *
\* max_margin_usage; otherwise it leaves pending_orders, orders_placed and
\* the exchange's orders unchanged.
C11_RiskGate ==
    [][(pc = "act" /\ pc' # "act" /\ ~(signal = "buy" /\ ~MarginExceeded))
          => /\ pending_orders' = pending_orders
             /\ orders_placed' = orders_placed
             /\ exOrders' = exOrders]_vars

\* C11 happens: a buy signal whose margin exceeds the limit
C11_Witness ==
    pc = "act" /\ signal = "buy" /\ MarginExceeded /\ accepting

\* the position handed to get_signal is open and nothing blocks the ladder:
\* the symbol has no tracked order that the open-order list still shows
Deciding ==
    pc = "act" /\ position # NoPosition /\ lookup # "open"

\* floor(position.qty / base quantity) for the current instrument
BuyCount == position.qty \div SYMBOL_CONFIG[cur].qty

\* (price - liquidation price) / price * 100 < min_liq_buffer
InsideLiqBuffer == (ltp - position.liq) * 1000 < min_liq_buffer * ltp

\* price < avg * (1 - drop_percent / 100 * buy_count)
BelowNextAverage ==
    ltp * 10000 < position.avg * (10000 - drop_percent * BuyCount)

\* C12: for an open position with buy_count >= max_buys and no unresolved
\* pending order, get_signal returns "hold" at every price and every
\* liquidation price.
C12_PositionSizeCap ==
    (Deciding /\ BuyCount >= max_buys) => signal = "hold"

\* C12 happens: a capped position at a price below the next averaging price
\* and outside the liquidation buffer
C12_Witness ==
    /\ Deciding /\ BuyCount >= max_buys
    /\ BelowNextAverage /\ ~InsideLiqBuffer

\* C13: for an open position whose liquidation gap is below min_liq_buffer
\* and no unresolved pending order, get_signal returns "hold", also when the
\* price is below the next averaging price.
C13_LiquidationBuffer ==
    (Deciding /\ InsideLiqBuffer) => signal = "hold"

\* C13 happens: inside the buffer, below the cap, price below the next
\* averaging price
C13_Witness ==
    /\ Deciding /\ InsideLiqBuffer
    /\ BuyCount < max_buys /\ BelowNextAverage

\* C14: for an open position below the cap and outside the liquidation
\* buffer, with no unresolved pending order, get_signal returns "buy" when
\* price < avg * (1 - drop_percent / 100 * buy_count) and "hold" otherwise.
C14_AveragingLadder ==
    (Deciding /\ BuyCount < max_buys /\ ~InsideLiqBuffer)
        => signal = (IF BelowNextAverage THEN "buy" ELSE "hold")

\* C14 happens: avg 1000 and buy_count 2 put the threshold at 985, and the
\* price 984 buys
C14_Witness ==
    /\ Deciding /\ ~InsideLiqBuffer
    /\ BuyCount = 2 /\ position.avg = 1000 /\ ltp = 984
    /\ signal = "buy"

\* get_signal was called for the current instrument with no open position
\* and without finding a tracked order of the symbol still open
Flat == pc = "act" /\ position = NoPosition /\ lookup # "open"

\* C15: with no open position and no unresolved tracked order get_signal
\* returns "buy", and when the margin suffices the cycle's step for the
\* instrument is the one call of place_maker_order, never the skip.
C15_InitialEntry ==
    Flat => /\ signal = "buy"
            /\ ~MarginExceeded => (ENABLED PlaceMakerOrder /\ ~ENABLED SkipOrder)

\* C15 happens: a fetched price, a successful position fetch showing no
\* position, nothing tracked, margin sufficient, the exchange accepting
C15_Witness ==
    /\ Flat /\ posOutcome = "ok" /\ lookup = "untracked"
    /\ ~MarginExceeded /\ accepting /\ orders_placed = 0

\* the bot's step is a fetch_ltp call that failed: the instrument is left
PriceFetchFails == pc = "ltp" /\ cur' # cur

\* the bot's step is a get_position call that returned after a failed request
PositionFetchFails ==
    pc = "position" /\ pc' = "signal" /\ posOutcome' \in {"429", "error"}

\* C16: every failed exchange call adds 1 to api_error_count (and the next
\* successful call takes 1 off, not below zero).  In the code only
\* get_position (not on 429) and the health probe count a failure: a failed
\* price fetch or a 429 on the position request leaves the counter alone.
C16_EveryFailureCounted ==
    [][(PriceFetchFails \/ PositionFetchFails)
          => api_error_count' = api_error_count + 1]_vars

\* C18: no exchange-client operation raises past its own boundary: the
\* caller always goes on at the statement after the call (the balance
\* refresh is followed by the instrument loop, fetch_ltp by get_position,
\* get_position by get_signal, and the startup refresh by the main loop).
\* In the code fetch_ltp and _update_balance re-raise, and get_position lets
\* a malformed body escape.
C18_NoRaisePastBoundary ==
    [][/\ (pc = "balance" /\ pc' # "balance") => pc' = "ltp"
       /\ (pc = "ltp" /\ (pc' # "ltp" \/ cur' # cur)) => pc' = "position"
       /\ (pc = "position" /\ pc' # "position") => pc' = "signal"
       /\ (pc = "init" /\ (pc' # "init" \/ attempt' # attempt))
             => pc' = "health"]_vars

\* C17: a call that failed transiently (timeout, connection failure, 429,
\* 5xx) is retried within the same call before its failure is reported: a
\* call that ends on a transient failure has sent more than one request.  In
\* the code every method sends one request and reports its answer.
C17_TransientRetried ==
    (call.stage = "done" /\ call.outcome \in Transient) => call.attempts > 1

\* C19: a wait() on a limiter that was used before returns at least
\* min_interval (1 / calls_per_second) after the previous wait() on the same
\* limiter returned.
C19_WaitKeepsInterval ==
    [][(/\ call.stage = "sleep" /\ call'.stage = "request"
        /\ last_call_time[call.limiter] # 0)
          => last_call_time'[call.limiter] >=
                last_call_time[call.limiter] + min_interval(call.limiter)]_vars

\* C19 happens: a wait() that came before the interval was over, slept and
\* has returned
C19_Witness ==
    /\ call.stage = "request" /\ call.sleep_time > 0
    /\ last_call_time[call.limiter] >= StartTime + min_interval(call.limiter)

\* the limiter of a request's class: order_limiter for the requests that
\* change orders, api_limiter for the account and market-data requests
ClassLimiter(op) ==
    IF op \in {"place", "cancel"} THEN "order_limiter" ELSE "api_limiter"

\* C20: a request is sent only after a wait() on the limiter of its class
\* has returned within the same call: order_limiter for place and cancel,
\* api_limiter for balance, positions, open orders, last price and health
\* probe.
C20_RequestBehindLimiter ==
    call.stage \in {"request", "done"}
        => /\ call.limiter = ClassLimiter(call.op)
           /\ last_call_time[call.limiter] # 0
           /\ last_call_time[call.limiter] <= now

\* C20 happens: a cancel request about to be sent behind order_limiter,
\* after api_limiter has served an earlier request
C20_Witness ==
    /\ call.stage = "request" /\ call.op = "cancel"
    /\ last_call_time["api_limiter"] # 0
    /\ last_call_time["order_limiter"] > last_call_time["api_limiter"]

\* get_signal fetches the open-order list for the order the current symbol
\* has had tracked since startup
SignalReconcilesLeftover ==
    /\ pc = "signal" /\ pc' = "act"
    /\ SYMBOL_CONFIG[cur].symbol \in DOMAIN pending_orders
    /\ pending_orders[SYMBOL_CONFIG[cur].symbol].order_id \in LeftoverIds
    /\ lookup' # "untracked"

\* C21: a tracked order is reconciled against the open-order list at most
\* once per order_check_interval.  Stated for an order tracked since startup:
\* when less than the interval has passed since the last gated
\* reconciliation (which covered it), no step fetches the list for it again.
\* In the code get_signal does so in every cycle, whatever the gate.
C21_ReconcileOncePerInterval ==
    [][SignalReconcilesLeftover => checkDue]_vars

\* the processing of the current instrument raises: fetch_ltp fails, or the
\* body of the position reply cannot be read
InstrumentRaises == pc \in {"ltp", "position"} /\ cur' # cur

\* C22: when the processing of an instrument raises, the error is caught at
\* the instrument boundary: no order is placed for the instrument and the
\* loop goes on with the next configured instrument of the same cycle (to
\* the end-of-cycle sleep only after the last one).
C22_InstrumentIsolation ==
    [][InstrumentRaises
          => /\ orders_placed' = orders_placed
             /\ pending_orders' = pending_orders
             /\ exOrders' = exOrders
             /\ IF cur < Len(SYMBOL_CONFIG)
                THEN pc' = "ltp" /\ cur' = cur + 1
                ELSE pc' = "sleep"]_vars

\* C22 happens: the second instrument has its price in a cycle in which no
\* position fetch has returned: the processing of the first one raised
C22_Witness ==
    /\ pc = "position" /\ cur = 2
    /\ done = {"reconcile", "timeouts", "balance", "price"}
    /\ ltp # 0

\* run() has been entered
InLoop == pc \notin {"init", "failed"}

\* the top of a cycle: the while test and the health check
TopOfCycle == pc = "health"

\* C23: once entered, the loop never ends: whatever fails inside a cycle,
\* the loop comes back to the top of a cycle, and leaves it again for the
\* next cycle.  (No shutdown signal is part of the runs checked here.)
C23_LoopNeverEnds ==
    /\ (InLoop /\ ~TopOfCycle) ~> TopOfCycle
    /\ (InLoop /\ TopOfCycle) ~> ~TopOfCycle

\* C23 happens: a cycle cut short by a failed balance refresh, at its sleep
C23_Witness ==
    pc = "sleep" /\ done = {"reconcile", "timeouts", "balance"}

\* what has been fetched and computed for the current instrument
PriceFetched == ltp \in Prices
PositionFetched == posOutcome # "none"
OrdersLookedUp == lookup # "none"
SignalComputed == signal # "none"

\* C24: for each instrument the price, the position and the open-order
\* state are fetched before the signal is computed, the action (place or
\* skip) ends the instrument before anything is fetched for the next one,
\* and the instruments are taken in configuration order.
C24_FetchDecideActInOrder ==
    [][/\ pc = "ltp"
          => ~PriceFetched /\ ~PositionFetched /\ ~OrdersLookedUp /\ ~SignalComputed
       /\ pc = "position"
          => PriceFetched /\ ~PositionFetched /\ ~OrdersLookedUp /\ ~SignalComputed
       /\ pc = "signal"
          => PriceFetched /\ PositionFetched /\ ~OrdersLookedUp /\ ~SignalComputed
       /\ pc = "act"
          => PriceFetched /\ PositionFetched /\ OrdersLookedUp /\ SignalComputed
       /\ (pc = "act" /\ pc' # "act") => (cur' # cur /\ pc' \in {"ltp", "sleep"})
       /\ cur' # cur
             => \/ cur' = cur + 1 /\ cur' <= Len(SYMBOL_CONFIG) /\ pc' = "ltp"
                \/ cur' = 0 /\ pc' = "sleep"]_vars

\* C24 happens: the second instrument decided, after the first one acted
C24_Witness ==
    /\ pc = "act" /\ cur = 2 /\ signal = "buy"
    /\ orders_placed = 1

\* an order mutation is in flight: the exchange has accepted the order or
\* confirmed the cancellation and the bot has not recorded it yet
MutationInFlight ==
    \/ pc = "placing" /\ NextOrderId \in DOMAIN exOrders
    \/ /\ pc = "cancelling"
       /\ \E r \in issued : r.ok /\ r.symbol \in DOMAIN pending_orders

\* C25: a termination signal never ends the process while an order mutation
\* is in flight; the process exits only from a point where every answered
\* place or cancel request has been recorded.
C25_ExitAfterMutation == [][pc' = "exited" => ~MutationInFlight]_vars

\* the step of run() that calls place_maker_order
PlacementStep == pc = "act" /\ ShouldPlace /\ pc' # "act"

\* the exchange answered the placement with HTTP 201
Accepted == NextOrderId \in DOMAIN exOrders'

\* C26: an accepted placement tracks the symbol with status NEW and nothing
\* filled and raises orders_placed by exactly 1; a rejected or failed one
\* leaves pending_orders and orders_placed as they were; either way the loop
\* moves on to the next instrument without a second request.
C26_PlacementEffect ==
    [][PlacementStep =>
         LET symbol == SYMBOL_CONFIG[cur].symbol IN
         /\ IF Accepted
            THEN /\ symbol \in DOMAIN pending_orders'
                 /\ pending_orders'[symbol].order_id = NextOrderId
                 /\ pending_orders'[symbol].status = "NEW"
                 /\ pending_orders'[symbol].fill_percentage = 0
                 /\ \A s \in (DOMAIN pending_orders) \ {symbol} :
                       /\ s \in DOMAIN pending_orders'
                       /\ pending_orders'[s] = pending_orders[s]
                 /\ orders_placed' = orders_placed + 1
            ELSE /\ pending_orders' = pending_orders
                 /\ orders_placed' = orders_placed
                 /\ exOrders' = exOrders
         /\ cur' # cur /\ pc' \in {"ltp", "sleep"}]_vars

\* C26 happens: the first instrument's order was accepted and is tracked
C26_Witness ==
    /\ pc = "ltp" /\ cur = 2
    /\ orders_placed = 1
    /\ SYMBOL_CONFIG[1].symbol \in DOMAIN pending_orders
    /\ pending_orders[SYMBOL_CONFIG[1].symbol].order_id = MaxLeftover + 1
    /\ pending_orders[SYMBOL_CONFIG[1].symbol].status = "NEW"

\* C27: start-up makes at most max_retries attempts, enters the loop from
\* the first attempt that does not raise, and after the last failed attempt
\* the bot stays out of the loop for good and places no order.
C27_BoundedStartup ==
    [][/\ (pc = "init" /\ << pc, attempt >>' # << pc, attempt >>)
          => /\ attempt < max_retries
             /\ \/ pc' = "health"
                \/ pc' = "init" /\ attempt' = attempt + 1
                                /\ attempt' < max_retries
                \/ pc' = "failed" /\ attempt = max_retries - 1
       /\ pc = "failed"
          => /\ pc' = "failed"
             /\ orders_placed = 0 /\ orders_placed' = 0
             /\ pending_orders' = EmptyMap]_vars

\* C27 happens: the third attempt has failed
C27_Witness == pc = "failed" /\ orders_placed = 0

\* the tracked order of s is due for the age-based cancellation, is still
\* open and less than half filled, and the exchange answers every call
Overdue(s) ==
    /\ s \in DOMAIN pending_orders
    /\ AgeCancelDue(pending_orders[s])
    /\ pending_orders[s].order_id \in DOMAIN exOrders
    /\ exOrders[pending_orders[s].order_id].filled < 50
    /\ exchangeUp

\* C28: while cycles keep running and the exchange confirms cancellations,
\* no tracked order stays overdue for ever: it is eventually removed from
\* tracking (or stops being overdue).
C28_TimeoutCleanupLive == \A s \in Symbols : ~<>[]Overdue(s)

\* an order of the exchange's open-order list that is not filled
Unresolved(order_id) ==
    OrderStatus(exOrders'[order_id].filled) \in {"NEW", "PARTIALLY_FILLED"}

\* start-up ends in this step and its scan listed the open orders: it
\* tracked one or tried to cancel one
StartupScanned ==
    /\ pc = "init" /\ pc' = "health"
    /\ (issued' # {} \/ pending_orders' # EmptyMap)

\* C29: when start-up ends, every unresolved order still open on the
\* exchange is tracked in pending_orders (the others have been cancelled).
C29_StartupTracksOrCancels ==
    [][StartupScanned
          => \A i \in DOMAIN exOrders' :
                Unresolved(i)
                   => \E s \in DOMAIN pending_orders' :
                         /\ pending_orders'[s].order_id = i
                         /\ exOrders'[i].symbol = s]_vars

\* the tracked order of s is dropped or replaced in this step
LeavesTracking(s) ==
    \/ s \notin DOMAIN pending_orders'
    \/ pending_orders'[s].order_id # pending_orders[s].order_id

Untracked ==
    { s \in DOMAIN pending_orders : LeavesTracking(s) }
NewlyTracked ==
    { s \in DOMAIN pending_orders' :
         \/ s \notin DOMAIN pending_orders
         \/ pending_orders'[s].order_id # pending_orders[s].order_id }

\* the orders open on the exchange when the process started: none in a run
\* in which the exchange accepts orders, at most MaxLeftover otherwise
OpenAtStart == IF accepting THEN 0 ELSE MaxLeftover

\* C31: in the main loop no counter decreases; every increment of
\* orders_filled or orders_cancelled is paid for by one tracked order that
\* leaves tracking in the same step, every order that enters tracking by one
\* increment of orders_placed, and so filled + cancelled + tracked never
\* exceeds placed + the orders found at start-up.
C31_CounterConservation ==
    [][InLoop =>
         /\ orders_placed' >= orders_placed
         /\ orders_filled' >= orders_filled
         /\ orders_cancelled' >= orders_cancelled
         /\ (orders_filled' - orders_filled)
              + (orders_cancelled' - orders_cancelled) <= Cardinality(Untracked)
         /\ Cardinality(NewlyTracked) <= orders_placed' - orders_placed
         /\ \A s \in NewlyTracked :
               pending_orders'[s].order_id = NextOrderId
         /\ orders_filled + orders_cancelled
              + Cardinality(DOMAIN pending_orders) <= orders_placed + OpenAtStart]_vars

\* C31 happens: of two orders placed, one was counted filled and one
\* cancelled
C31_Witness ==
    /\ InLoop
    /\ orders_placed = 2 /\ orders_filled = 1 /\ orders_cancelled = 1

\* a termination signal has been handled: is_running is False
Signalled == pc \in {"stopping", "exited"}

\* C32: once a termination signal has been handled no order is placed (none
\* is accepted by the exchange, none is counted or tracked) and the process
\* ends, also when the handler's SystemExit is caught inside check_api_health.
C32_StopsAfterSignal ==
    /\ [][Signalled => /\ Signalled'
                       /\ orders_placed' = orders_placed
                       /\ DOMAIN exOrders' \subseteq DOMAIN exOrders
                       /\ DOMAIN pending_orders' \subseteq DOMAIN pending_orders]_vars
    /\ Signalled ~> (pc = "exited")

\* C32 happens: the exit was caught in check_api_health and the thread is
\* in its sleep with is_running False
C32_Witness == pc = "stopping" /\ ~healthy

\* the smallest quote of the set S
Lowest(S) == CHOOSE p \in S : \A q \in S : p <= q

\* margin_needed of the orders of both instruments at the quotes p1 and p2
\* exceeds available_balance * max_margin_usage (both sides multiplied by
\* 1000 and by the two leverages)
CycleMarginExceeded(p1, p2) ==
    SYMBOL_CONFIG[1].qty * p1 * SYMBOL_CONFIG[2].leverage
       + SYMBOL_CONFIG[2].qty * p2 * SYMBOL_CONFIG[1].leverage
    > available_balance * max_margin_usage * 100
         * SYMBOL_CONFIG[1].leverage * SYMBOL_CONFIG[2].leverage

\* the second instrument's order is accepted in a cycle that has already
\* placed the first one
SecondPlacementOfCycle ==
    /\ PlacementStep /\ Accepted
    /\ cur = 2 /\ orders_placed = 1
    /\ SYMBOL_CONFIG[1].symbol \in DOMAIN pending_orders

\* C33: the margins of the entry orders placed in one cycle together stay
\* within available_balance * max_margin_usage of that cycle's balance
\* (the first order was placed at one of the cycle's quotes, so it needed
\* at least the margin at the lowest of them).
C33_CycleMarginWithinBalance ==
    [][SecondPlacementOfCycle
          => ~CycleMarginExceeded(Lowest(CyclePrices), ltp)]_vars

====
